---- MODULE Spec2Model ----
(* Model of the Caveman Article Agent (src/app.py): a Streamlit script that  *)
(* is re-executed on every widget interaction. One session is modelled: the  *)
(* sidebar widgets, st.session_state.generated_content, and the position of  *)
(* the generation pipeline between its blocking external calls.              *)
EXTENDS Naturals, Sequences, FiniteSets, TLC

VARIABLES
    env,                \* process environment: OPENAI_API_KEY, FREEPIK_API_KEY, PORT,
                        \* and whether the installed Streamlit lets a script set
                        \* server.* options
    title,              \* value of the "Article Title" text input
    word_range,         \* value of the "Word Range" text input
    session,            \* st.session_state.generated_content: <<>> (None) or <<dict>>
    pc,                 \* position of the current script run in the pipeline
    generated_content,  \* the dict built by the current run
    locals,             \* values returned to the run by the calls it made so far
    calls,              \* functions / network requests invoked by the current run
    messages,           \* st.error / st.warning messages shown by the current run
    download,           \* <<>> or <<document>> offered by the download button
    screen,             \* which of the two export buttons are on screen
    stop_requested,     \* an interaction was made while the script was running
                        \* and waits for the script to be stopped, or has stopped it
    session_before,     \* history: retained result when the current run started
    result_title,       \* history: title of the run that produced the retained result
    outcomes_before,    \* history: <<>> or <<what the calls of the run that produced
                        \* session_before returned>>
    prompts,            \* what the current run interpolated into the request of each
                        \* call it made, in order
    response_previews   \* history: the preview urls carried by the first element of
                        \* the search response the run has just received; empty
                        \* again once the run has made its next call

vars == <<env, title, word_range, session, pc, generated_content, locals, calls,
          messages, download, screen, stop_requested, session_before, result_title,
          outcomes_before, prompts, response_previews>>

-----------------------------------------------------------------------------
(* Bounds of the model: how many distinct values each input may take.        *)
MaxTitles == 2
MaxUrls == 1

(* Python's None, for scalar values. *)
None == "None"

TitlePool == <<"Solar Power", "Wind Power", "Tidal Power">>
FreepikUrlPool == <<"https://freepik/1", "https://freepik/2">>
DalleUrlPool == <<"https://dalle/1", "https://dalle/2">>

Titles == {TitlePool[i] : i \in 1..MaxTitles}
\* The program tests a generated text for truthiness, stores it and
\* interpolates it, and reads nothing of it: two values tell one run's text
\* from another's.
OutlineTexts == {"outline-1", "outline-2"}
ArticleTexts == {"article-1", "article-2"}
ResourcesTexts == {"resources-1", "resources-2"}
FreepikUrls == {FreepikUrlPool[i] : i \in 1..MaxUrls}
DalleUrls == {DalleUrlPool[i] : i \in 1..MaxUrls}

TitleInputs == Titles \cup {""}
WordRangeInputs == {"", "800-1000"}

-----------------------------------------------------------------------------
(* Python values.                                                            *)

\* bool(v) for a string-or-None value: None and "" are falsy.
Truthy(v) == v # None /\ v # ""

\* The empty dict {}.
EmptyDict == [k \in {} |-> None]

\* d.get(k) / d.get(k, default)
Get(d, k, default) == IF k \in DOMAIN d THEN d[k] ELSE default

\* d[k] = v on a dict
Put(d, k, v) == [x \in DOMAIN d \cup {k} |-> IF x = k THEN v ELSE d[x]]

\* A dict with at most the one key k, its value drawn from V.
OptDict(k, V) == {EmptyDict} \cup {[x \in {k} |-> v] : v \in V}

-----------------------------------------------------------------------------
(* Outcomes of the external calls.                                           *)

\* openai.chat.completions.create: raises, or returns a message whose content
\* is None, empty or a text.
ChatOutcomes(texts) ==
    {[raises |-> TRUE, content |-> None]} \cup
    {[raises |-> FALSE, content |-> c] : c \in texts \cup {None, ""}}

\* openai.images.generate: raises, or returns data[0].url (None when the
\* response carries no url).
ImageOutcomes ==
    {[raises |-> TRUE, url |-> None]} \cup
    {[raises |-> FALSE, url |-> u] : u \in DalleUrls \cup {None}}

\* One element of the "data" array of a Freepik response: the preview url may
\* sit under attributes.preview.url or images.preview.url.
FreepikPreviews(urls) == OptDict("preview", OptDict("url", urls \cup {None, ""}))
FreepikItems ==
    {[k \in ks |-> IF k = "attributes" THEN a ELSE i] :
        ks \in SUBSET {"attributes", "images"},
        a \in FreepikPreviews(FreepikUrls),
        i \in FreepikPreviews(FreepikUrls)}

\* requests.get(...): raises, or returns a response with a status code and a
\* JSON body that may carry a "data" array.
FreepikOutcomes ==
    {[raises |-> TRUE, status_code |-> 0, json |-> EmptyDict]} \cup
    {[raises |-> FALSE, status_code |-> s, json |-> j] :
        s \in {200, 404},
        j \in OptDict("data", {<<>>} \cup {<<it>> : it \in FreepikItems})}

-----------------------------------------------------------------------------
(* The five call wrappers: each catches every exception of its external call *)
(* and returns None instead.                                                 *)

\* get_freepik_image: None without a key, on an exception, on a non-200
\* status and on an empty or missing data array; otherwise the preview url of
\* the first element, looked up under the first shape whose container exists.
get_freepik_image(api_key, r) ==
    IF ~Truthy(api_key) THEN None
    ELSE IF r.raises THEN None
    ELSE IF r.status_code = 200
    THEN LET data == r.json IN
         IF "data" \in DOMAIN data /\ Len(data["data"]) > 0
         THEN LET item == data["data"][1] IN
              IF "attributes" \in DOMAIN item /\ "preview" \in DOMAIN item["attributes"]
              THEN Get(item["attributes"]["preview"], "url", None)
              ELSE IF "images" \in DOMAIN item /\ "preview" \in DOMAIN item["images"]
              THEN Get(item["images"]["preview"], "url", None)
              ELSE None
         ELSE None
    ELSE None

\* What get_freepik_image invokes and shows: the network request is made only
\* with a key, the warning is shown only for a caught exception.
freepik_calls(api_key) ==
    IF Truthy(api_key) THEN <<"get_freepik_image", "requests.get">>
    ELSE <<"get_freepik_image">>

Msg(level, text) == [level |-> level, text |-> text]

freepik_messages(api_key, r) ==
    IF Truthy(api_key) /\ r.raises THEN <<Msg("warning", "Freepik API error")>> ELSE <<>>

generate_dalle_image(r) == IF r.raises THEN None ELSE r.url

dalle_messages(r) ==
    IF r.raises THEN <<Msg("error", "DALL-E generation error")>> ELSE <<>>

generate_outline(r) == IF r.raises THEN None ELSE r.content

outline_messages(r) ==
    IF r.raises THEN <<Msg("error", "Outline generation error")>> ELSE <<>>

write_article(r) == IF r.raises THEN None ELSE r.content

article_messages(r) ==
    IF r.raises THEN <<Msg("error", "Article writing error")>> ELSE <<>>

suggest_resources(r) == IF r.raises THEN None ELSE r.content

resources_messages(r) ==
    IF r.raises THEN <<Msg("error", "Resource suggestion error")>> ELSE <<>>

\* The values interpolated into each request: the f-strings of lines 89, 106,
\* 123 and 71, and the search parameters of lines 39-43.
outline_prompt(t, w) == [call |-> "generate_outline", title |-> t, word_range |-> w]

article_prompt(t, outline, w) ==
    [call |-> "write_article", title |-> t, outline |-> outline, word_range |-> w]

resources_prompt(t) == [call |-> "suggest_resources", title |-> t]

dalle_prompt(t) == [call |-> "generate_dalle_image", title |-> t]

\* The search request is built and sent only with a key.
freepik_params(api_key, t) ==
    IF Truthy(api_key) THEN <<[call |-> "requests.get", term |-> t]>> ELSE <<>>

\* The truthy urls the first data element of a 200 response carries under
\* attributes.preview.url or images.preview.url.
PreviewUrls(r) ==
    IF r.raises \/ r.status_code # 200 \/ "data" \notin DOMAIN r.json THEN {}
    ELSE IF Len(r.json["data"]) = 0 THEN {}
    ELSE LET item == r.json["data"][1] IN
         {item[k]["preview"]["url"] :
            k \in {c \in DOMAIN item :
                      /\ "preview" \in DOMAIN item[c]
                      /\ "url" \in DOMAIN item[c]["preview"]
                      /\ Truthy(item[c]["preview"]["url"])}}

\* Line 181 and line 183: the message of the validation that fails, if any.
config_error(t, w, api_key) ==
    IF ~Truthy(t) \/ ~Truthy(w)
    THEN <<Msg("error", "Please fill in both the title and word range fields.")>>
    ELSE IF ~Truthy(api_key)
    THEN <<Msg("error", "OpenAI API key not found.")>>
    ELSE <<>>

\* Line 195 / 229: the pipeline goes on only with a truthy outline.
after_outline(outline) == IF Truthy(outline) THEN "ArticlePending" ELSE "OutlineFailed"

\* Variant: a failed article is not fatal, the run goes on to the image.
after_article_lenient(article) == "ImagePending"

\* Line 202 / 227: the pipeline goes on only with a truthy article.
after_article(article) == IF Truthy(article) THEN "ImagePending" ELSE "ArticleFailed"

\* Variant: a search without a url is tried again.
after_search_retry(freepik_image) ==
    IF Truthy(freepik_image) THEN "ResourcesPending" ELSE "ImagePending"

\* Variant: no short-circuit, the second tier is always tried.
after_search_always_fallback(freepik_image) == "ImageFallback"

\* Line 136: the second tier is tried only when the first returned nothing.
after_search(freepik_image) ==
    IF Truthy(freepik_image) THEN "ResourcesPending" ELSE "ImageFallback"

\* Variant: the second tier's pair carries the first tier's label.
generate_header_image_one_label(freepik_image, dalle_image) ==
    IF Truthy(freepik_image) THEN <<freepik_image, "Freepik">>
    ELSE IF Truthy(dalle_image) THEN <<dalle_image, "Freepik">>
    ELSE <<None, None>>

\* generate_header_image, given what the two tiers return; dalle_image is only
\* looked at when freepik_image is falsy.
generate_header_image(freepik_image, dalle_image) ==
    IF Truthy(freepik_image) THEN <<freepik_image, "Freepik">>
    ELSE IF Truthy(dalle_image) THEN <<dalle_image, "DALL-E">>
    ELSE <<None, None>>

\* Variant: line 211 is missing, the source label is never stored with a url.
store_image_no_source(content, image) ==
    IF Truthy(image[1])
    THEN Put(content, "image_url", image[1])
    ELSE Put(Put(content, "image_url", None), "image_source", None)

\* Lines 209-216: the image fields the pipeline stores for a returned pair.
store_image(content, image) ==
    IF Truthy(image[1])
    THEN Put(Put(content, "image_url", image[1]), "image_source", image[2])
    ELSE Put(Put(content, "image_url", None), "image_source", None)

image_messages(image) ==
    IF Truthy(image[1]) THEN <<>>
    ELSE <<Msg("warning", "Could not generate header image.")>>

\* Lines 221-223: resources are stored only when truthy.
store_resources(content, resources) ==
    IF Truthy(resources) THEN Put(content, "resources", resources) ELSE content

-----------------------------------------------------------------------------
(* Markdown export (lines 265-282).                                          *)

\* The f-string of line 266, as the sequence of its literal and interpolated
\* pieces.
markdown_content(t, content) ==
    <<"# ", t, "\n\n## Outline\n", Get(content, "outline", ""),
      "\n\n## Article\n", Get(content, "article", ""),
      "\n\n## Resources\n", Get(content, "resources", ""), "\n">>

\* title.replace(' ', '_') + ".md" on the titles of the model.
file_name(t) ==
    CASE t = "Solar Power" -> "Solar_Power.md"
      [] t = "Wind Power" -> "Wind_Power.md"
      [] t = "Tidal Power" -> "Tidal_Power.md"
      [] t = "" -> ".md"

-----------------------------------------------------------------------------
(* The session.                                                              *)

NoLocals ==
    [outline |-> None, article |-> None, freepik_image |-> None,
     dalle_image |-> None, resources |-> None]

\* Values of the PORT variable: unset (line 22 takes 8501) or not a number. A
\* PORT that is a number behaves like an unset one from line 23 on.
PortInputs == {None, "abc"}

\* Lines 22-24, run by every execution before the session state is set up and
\* before any widget is drawn. int() raises ValueError on a PORT that is not a
\* number; st.set_option raises StreamlitAPIException for an option that the
\* installed Streamlit does not let a script set.
configure_server(e) ==
    IF e.PORT = "abc" THEN "ValueError"
    ELSE IF ~e.SERVER_OPTIONS_SCRIPTABLE THEN "StreamlitAPIException"
    ELSE "ok"

\* The display block (lines 236-284), which an execution reaches when its
\* pipeline block is over: "Download as Markdown" (line 265) is drawn when a
\* result is retained, "Download Markdown File" (lines 277-282) when this
\* execution offers a document. What an earlier execution drew stays on screen
\* until an execution replaces it or gets to the end of the script.
drawn(s, d) == [export |-> s # <<>>, file |-> d # <<>>]

\* How the part of an execution that follows the pipeline block can end, with
\* retained result s, document d to offer and old on screen. Every st.* call
\* is a point at which the runtime stops the script for an interaction that
\* has arrived. The script runs to line 292; or it is stopped before the
\* display block has replaced anything (lines 147-233, or 286-287 with no
\* result); or inside the display block, once its elements have replaced the
\* old ones, before line 265; or after line 265 has drawn the first button,
\* at line 277 or 284; or after line 277 has offered the document.
EndOfScript(s, d, old) ==
    {[screen |-> drawn(s, d), download |-> d, stop |-> FALSE],
     [screen |-> old, download |-> <<>>, stop |-> TRUE]}
    \cup (IF s = <<>> THEN {}
          ELSE {[screen |-> drawn(<<>>, <<>>), download |-> <<>>, stop |-> TRUE],
                [screen |-> drawn(s, <<>>), download |-> <<>>, stop |-> TRUE]})
    \cup (IF s = <<>> \/ d = <<>> THEN {}
          ELSE {[screen |-> drawn(s, d), download |-> d, stop |-> TRUE]})

\* A step after which the execution is still in the pipeline block, or has
\* been stopped there: nothing of the display block has been drawn.
NotAtEnd(old, stopped) == {[screen |-> old, download |-> <<>>, stop |-> stopped]}

Init ==
    /\ env \in [OPENAI_API_KEY : {None, "sk-key"}, FREEPIK_API_KEY : {None, "fp-key"},
                PORT : PortInputs, SERVER_OPTIONS_SCRIPTABLE : BOOLEAN]
    /\ title = ""
    /\ word_range = ""
    /\ session = <<>>
    /\ pc = IF configure_server(env) = "ok" THEN "Idle" ELSE "StartupError"
    /\ generated_content = EmptyDict
    /\ locals = NoLocals
    /\ calls = <<>>
    /\ messages = <<>>
    /\ download = <<>>
    /\ screen = drawn(<<>>, <<>>)
    /\ stop_requested = FALSE
    /\ session_before = <<>>
    /\ result_title = ""
    /\ outcomes_before = <<>>
    /\ prompts = <<>>
    /\ response_previews = {}

\* What a run's calls returned, every falsy value folded into None.
Norm(v) == IF Truthy(v) THEN v ELSE None
Outcomes(l) == [k \in DOMAIN l |-> Norm(l[k])]

\* Positions in which the script is blocked in an external call (or on its way
\* to it).
Blocked ==
    {"OutlinePending", "ArticlePending", "ImagePending", "ImageFallback",
     "ResourcesPending"}

\* The widgets stay live while the script runs. An interaction made while
\* the script is blocked in a call is queued by the runtime: the call still
\* returns, and the script is stopped at the next st.* call it makes.
QueueInteraction ==
    /\ pc \in Blocked
    /\ ~stop_requested
    /\ stop_requested' = TRUE
    /\ UNCHANGED <<env, title, word_range, session, pc, generated_content, locals,
                   calls, messages, download, screen, session_before,
                   result_title, outcomes_before, prompts, response_previews>>

\* Every interaction re-executes the script from the top: what the previous
\* execution drew and its local variables are gone. The re-execution starts
\* when the script has ended, when it has been stopped, or, for an interaction
\* made before the script entered its next call, at the st.* call that
\* precedes that call (lines 191-192, 199, 206, 218; there is none between the
\* two image tiers). A script that fails at lines 22-24 fails again in every
\* re-execution, with no widget to interact with.
Rerun ==
    /\ configure_server(env) = "ok"
    /\ \/ pc \in {"Idle", "ConfigError", "OutlineFailed", "ArticleFailed", "Complete",
                  "Stopped"}
       \/ pc \in Blocked \ {"ImageFallback"} /\ ~stop_requested
    /\ generated_content' = EmptyDict
    /\ locals' = NoLocals
    /\ calls' = <<>>
    /\ session_before' = session
    /\ outcomes_before' = IF pc = "Complete" THEN <<Outcomes(locals)>> ELSE outcomes_before
    /\ prompts' = <<>>
    /\ response_previews' = {}

\* Variant: lines 27-28 without the "not in" guard, every rerun that does not
\* generate starts from an empty session state.
NoGenerate_resets_session ==
    /\ Rerun
    /\ pc' = "Idle"
    /\ messages' = <<>>
    /\ session' = <<>>
    /\ UNCHANGED <<env, result_title>>

\* A rerun in which generate_button is False: line 180 skips the pipeline.
NoGenerate ==
    /\ Rerun
    /\ pc' = "Idle"
    /\ messages' = <<>>
    /\ UNCHANGED <<env, session, result_title>>

EditTitle ==
    \E t \in TitleInputs :
        /\ t # title
        /\ NoGenerate
        /\ title' = t
        /\ \E e \in EndOfScript(session', <<>>, screen) :
              /\ download' = e.download
              /\ screen' = e.screen
              /\ stop_requested' = e.stop
        /\ UNCHANGED word_range

EditWordRange ==
    \E w \in WordRangeInputs :
        /\ w # word_range
        /\ NoGenerate
        /\ word_range' = w
        /\ \E e \in EndOfScript(session', <<>>, screen) :
              /\ download' = e.download
              /\ screen' = e.screen
              /\ stop_requested' = e.stop
        /\ UNCHANGED title

\* "Download as Markdown" (line 265): clickable while it is on screen, also
\* during a run in progress. The click re-executes the script, where the
\* button is True, line 266 builds the document from the retained result and
\* lines 277-282 offer it.
ClickDownload ==
    /\ screen.export
    /\ NoGenerate
    /\ \E e \in EndOfScript(session',
                             <<[data |-> markdown_content(title, session[1]),
                                file_name |-> file_name(title)]>>, screen) :
          /\ download' = e.download
          /\ screen' = e.screen
          /\ stop_requested' = e.stop
    /\ UNCHANGED <<title, word_range>>

\* "Download Markdown File" (lines 277-282): clickable while it is on screen,
\* also during a run in progress. In the rerun its click causes,
\* "Download as Markdown" is False and the file button is not drawn again.
ClickDownloadFile ==
    /\ screen.file
    /\ NoGenerate
    /\ \E e \in EndOfScript(session', <<>>, screen) :
          /\ download' = e.download
          /\ screen' = e.screen
          /\ stop_requested' = e.stop
    /\ UNCHANGED <<title, word_range>>

\* The script re-executed with no widget changed (the runtime's Rerun command).
RerunScript ==
    /\ NoGenerate
    /\ \E e \in EndOfScript(session', <<>>, screen) :
          /\ download' = e.download
          /\ screen' = e.screen
          /\ stop_requested' = e.stop
    /\ UNCHANGED <<title, word_range>>

\* "Generate Article": validation (lines 181-184), then lines 186-192. "early"
\* is an interaction that stops the execution before line 182 / 184 / 186.
\* An execution that fails validation goes on to the display block.
ClickGenerate ==
    /\ Rerun
    /\ download' = <<>>
    /\ \E early \in BOOLEAN :
        LET error == config_error(title, word_range, env.OPENAI_API_KEY) IN
        /\ messages' = IF early THEN <<>> ELSE error
        /\ pc' = IF early THEN "Stopped"
                 ELSE IF error # <<>> THEN "ConfigError" ELSE "OutlinePending"
        /\ \E e \in IF ~early /\ error # <<>>
                     THEN EndOfScript(session, <<>>, screen)
                     ELSE NotAtEnd(screen, early) :
              /\ screen' = e.screen
              /\ stop_requested' = e.stop
    /\ UNCHANGED <<env, title, word_range, session, result_title>>

\* Lines 193-199 and 229-230. With an interaction queued the script is stopped
\* at the first st.* call after the call returned: st.error of the wrapper
\* (line 95), st.error of line 230, or progress_bar.progress (line 197), which
\* comes after the outline is stored. "late" is an interaction made between
\* the wrapper's st.error and line 230, which stops the script at line 230. A
\* run that has reported the failure goes on to lines 232-233 and the display
\* block.
OutlineStep ==
    /\ pc = "OutlinePending"
    /\ \E r \in ChatOutcomes(OutlineTexts), late \in BOOLEAN :
        LET outline == generate_outline(r)
            stopped == stop_requested \/ late IN
        /\ late => (r.raises /\ ~stop_requested)
        /\ calls' = Append(calls, "generate_outline")
        /\ prompts' = Append(prompts, outline_prompt(title, word_range))
        /\ locals' = [locals EXCEPT !.outline = outline]
        /\ generated_content' =
              IF after_outline(outline) = "ArticlePending"
              THEN Put(generated_content, "outline", outline)
              ELSE generated_content
        /\ messages' = messages
              \o (IF stop_requested THEN <<>> ELSE outline_messages(r))
              \o (IF stopped \/ after_outline(outline) = "ArticlePending" THEN <<>>
                  ELSE <<Msg("error", "Failed to generate outline. Please try again.")>>)
        /\ pc' = IF stopped THEN "Stopped" ELSE after_outline(outline)
        /\ \E e \in IF ~stopped /\ after_outline(outline) = "OutlineFailed"
                     THEN EndOfScript(session, <<>>, screen)
                     ELSE NotAtEnd(screen, stopped) :
              /\ screen' = e.screen
              /\ stop_requested' = e.stop
    /\ UNCHANGED <<env, title, word_range, session, download, session_before,
                   result_title, outcomes_before, response_previews>>

\* Variant: session_state is assigned as soon as the article call returns, so
\* a run whose article failed retains its partial result.
ArticleStep_publish_early ==
    /\ pc = "ArticlePending"
    /\ \E r \in ChatOutcomes(ArticleTexts), late \in BOOLEAN :
        LET article == write_article(r)
            stopped == stop_requested \/ late IN
        /\ late => (r.raises /\ ~stop_requested)
        /\ calls' = Append(calls, "write_article")
        /\ prompts' = Append(prompts, article_prompt(title, locals.outline, word_range))
        /\ locals' = [locals EXCEPT !.article = article]
        /\ generated_content' =
              IF after_article(article) = "ImagePending"
              THEN Put(generated_content, "article", article)
              ELSE generated_content
        /\ messages' = messages
              \o (IF stop_requested THEN <<>> ELSE article_messages(r))
              \o (IF stopped \/ after_article(article) = "ImagePending" THEN <<>>
                  ELSE <<Msg("error", "Failed to generate article. Please try again.")>>)
        /\ pc' = IF stopped THEN "Stopped" ELSE after_article(article)
        /\ session' = <<generated_content'>>
        /\ \E e \in IF ~stopped /\ after_article(article) = "ArticleFailed"
                     THEN EndOfScript(session', <<>>, screen)
                     ELSE NotAtEnd(screen, stopped) :
              /\ screen' = e.screen
              /\ stop_requested' = e.stop
    /\ UNCHANGED <<env, title, word_range, download, session_before,
                   result_title, outcomes_before, response_previews>>

\* Lines 199-206 and 227-228; stop points: st.error of the wrapper (line 112),
\* st.error of line 228, progress_bar.progress (line 204) after the article is
\* stored.
ArticleStep ==
    /\ pc = "ArticlePending"
    /\ \E r \in ChatOutcomes(ArticleTexts), late \in BOOLEAN :
        LET article == write_article(r)
            stopped == stop_requested \/ late IN
        /\ late => (r.raises /\ ~stop_requested)
        /\ calls' = Append(calls, "write_article")
        /\ prompts' = Append(prompts, article_prompt(title, locals.outline, word_range))
        /\ locals' = [locals EXCEPT !.article = article]
        /\ generated_content' =
              IF after_article(article) = "ImagePending"
              THEN Put(generated_content, "article", article)
              ELSE generated_content
        /\ messages' = messages
              \o (IF stop_requested THEN <<>> ELSE article_messages(r))
              \o (IF stopped \/ after_article(article) = "ImagePending" THEN <<>>
                  ELSE <<Msg("error", "Failed to generate article. Please try again.")>>)
        /\ pc' = IF stopped THEN "Stopped" ELSE after_article(article)
        /\ \E e \in IF ~stopped /\ after_article(article) = "ArticleFailed"
                     THEN EndOfScript(session, <<>>, screen)
                     ELSE NotAtEnd(screen, stopped) :
              /\ screen' = e.screen
              /\ stop_requested' = e.stop
    /\ UNCHANGED <<env, title, word_range, session, download, session_before,
                   result_title, outcomes_before, response_previews>>

\* Lines 207 and 135-137: the first tier; with a url the pair is returned and
\* stored (lines 209-212), otherwise the second tier is next. Stop points:
\* st.warning of the wrapper (line 62) and progress_bar.progress (line 211)
\* after the pair is stored; a search that returns nothing without raising
\* reaches no st.* call before the second tier's call.
ImageSearchStep ==
    /\ pc = "ImagePending"
    /\ \E r \in FreepikOutcomes :
        LET freepik_image == get_freepik_image(env.FREEPIK_API_KEY, r)
            stopped == /\ stop_requested
                       /\ \/ Truthy(env.FREEPIK_API_KEY) /\ r.raises
                          \/ after_search(freepik_image) = "ResourcesPending" IN
        /\ calls' = calls \o freepik_calls(env.FREEPIK_API_KEY)
        /\ prompts' = prompts \o freepik_params(env.FREEPIK_API_KEY, title)
        /\ response_previews' = IF Truthy(env.FREEPIK_API_KEY) THEN PreviewUrls(r) ELSE {}
        /\ locals' = [locals EXCEPT !.freepik_image = freepik_image]
        /\ messages' = messages
              \o (IF stopped THEN <<>> ELSE freepik_messages(env.FREEPIK_API_KEY, r))
        /\ pc' = IF stopped THEN "Stopped" ELSE after_search(freepik_image)
        /\ generated_content' =
              IF after_search(freepik_image) = "ResourcesPending"
              THEN store_image(generated_content, generate_header_image(freepik_image, None))
              ELSE generated_content
    /\ UNCHANGED <<env, title, word_range, session, download, screen, stop_requested,
                   session_before, result_title, outcomes_before>>

\* Lines 139-143 and 209-218: the second tier. Stop points: st.error of the
\* wrapper (line 78), st.warning of line 214, which comes before the two None
\* fields are stored, and progress_bar.progress (line 211) after a url is
\* stored. "late" is an interaction made between the wrapper's st.error and
\* line 214.
ImageGenStep ==
    /\ pc = "ImageFallback"
    /\ \E r \in ImageOutcomes, late \in BOOLEAN :
        LET dalle_image == generate_dalle_image(r)
            image == generate_header_image(locals.freepik_image, dalle_image)
            stopped == stop_requested \/ late IN
        /\ late => (r.raises /\ ~stop_requested)
        /\ calls' = Append(calls, "generate_dalle_image")
        /\ prompts' = Append(prompts, dalle_prompt(title))
        /\ locals' = [locals EXCEPT !.dalle_image = dalle_image]
        /\ messages' = messages
              \o (IF stop_requested THEN <<>> ELSE dalle_messages(r))
              \o (IF stopped THEN <<>> ELSE image_messages(image))
        /\ generated_content' =
              IF stopped /\ ~Truthy(image[1]) THEN generated_content
              ELSE store_image(generated_content, image)
        /\ pc' = IF stopped THEN "Stopped" ELSE "ResourcesPending"
        /\ stop_requested' = stopped
    /\ UNCHANGED <<env, title, word_range, session, download, screen, session_before,
                   result_title, outcomes_before>>
    /\ response_previews' = {}

\* Variant: the retained dict is updated with the new one instead of being
\* replaced by it.
ResourcesStep_merge ==
    /\ pc = "ResourcesPending"
    /\ \E r \in ChatOutcomes(ResourcesTexts) :
        LET resources == suggest_resources(r)
            new == store_resources(generated_content, resources)
            old == IF session = <<>> THEN EmptyDict ELSE session[1]
            stopped == stop_requested /\ (r.raises \/ Truthy(resources)) IN
        /\ calls' = Append(calls, "suggest_resources")
        /\ prompts' = Append(prompts, resources_prompt(title))
        /\ locals' = [locals EXCEPT !.resources = resources]
        /\ messages' = messages \o (IF stopped THEN <<>> ELSE resources_messages(r))
        /\ generated_content' = new
        /\ session' = IF stopped THEN session
                      ELSE <<[k \in DOMAIN old \cup DOMAIN new |->
                                IF k \in DOMAIN new THEN new[k] ELSE old[k]]>>
        /\ pc' = IF stopped THEN "Stopped" ELSE "Complete"
        /\ result_title' = IF stopped THEN result_title ELSE title
        /\ \E e \in IF stop_requested THEN NotAtEnd(screen, TRUE)
                     ELSE EndOfScript(session', <<>>, screen) :
              /\ screen' = e.screen
              /\ stop_requested' = e.stop
    /\ UNCHANGED <<env, title, word_range, download, session_before, outcomes_before>>
    /\ response_previews' = {}

\* Lines 219-226: resources, then the result is published and the script
\* goes on to lines 232-233 and the display block. With an interaction queued
\* the script is stopped at st.error of the wrapper (line 129) or at
\* progress_bar.progress (line 223) after the resources are stored, both before
\* the publication; a call that returns nothing without raising reaches no
\* st.* call before line 225: the result is published and the script is
\* stopped at line 226. An interaction made after line 129 or line 223 finds
\* the result published and stops the script at line 226 or later.
ResourcesStep ==
    /\ pc = "ResourcesPending"
    /\ \E r \in ChatOutcomes(ResourcesTexts) :
        LET resources == suggest_resources(r)
            stopped == stop_requested /\ (r.raises \/ Truthy(resources)) IN
        /\ calls' = Append(calls, "suggest_resources")
        /\ prompts' = Append(prompts, resources_prompt(title))
        /\ locals' = [locals EXCEPT !.resources = resources]
        /\ messages' = messages \o (IF stopped THEN <<>> ELSE resources_messages(r))
        /\ generated_content' = store_resources(generated_content, resources)
        /\ session' = IF stopped THEN session
                      ELSE <<store_resources(generated_content, resources)>>
        /\ pc' = IF stopped THEN "Stopped" ELSE "Complete"
        /\ result_title' = IF stopped THEN result_title ELSE title
        /\ \E e \in IF stop_requested THEN NotAtEnd(screen, TRUE)
                     ELSE EndOfScript(session', <<>>, screen) :
              /\ screen' = e.screen
              /\ stop_requested' = e.stop
    /\ UNCHANGED <<env, title, word_range, download, session_before, outcomes_before>>
    /\ response_previews' = {}

Next ==
    \/ EditTitle
    \/ EditWordRange
    \/ ClickDownload
    \/ ClickDownloadFile
    \/ RerunScript
    \/ ClickGenerate
    \/ QueueInteraction
    \/ OutlineStep
    \/ ArticleStep
    \/ ImageSearchStep
    \/ ImageGenStep
    \/ ResourcesStep

Spec == Init /\ [][Next]_vars

\* Every external call is a blocking request that returns, so a run that has
\* started and is not abandoned takes its next pipeline step.
FairSpec ==
    Spec /\ WF_vars(OutlineStep) /\ WF_vars(ArticleStep) /\ WF_vars(ImageSearchStep)
         /\ WF_vars(ImageGenStep) /\ WF_vars(ResourcesStep)

-----------------------------------------------------------------------------
(* Properties.                                                               *)

\* f was invoked by the current run.
Invoked(f) == \E i \in 1..Len(calls) : calls[i] = f

\* Field k of result d holds a value.
Present(d, k) == k \in DOMAIN d /\ d[k] # None

Reported(level, text) ==
    \E i \in 1..Len(messages) : messages[i] = Msg(level, text)

FatalStates == {"ConfigError", "OutlineFailed", "ArticleFailed"}

\* The runtime has stopped the script of the run for an interaction.
RunStopped == pc = "Stopped"

\* The run called generate_outline and got nothing usable back.
OutlineCallFailed == Invoked("generate_outline") /\ ~Truthy(locals.outline)

\* C1: a validated run whose outline call fails (an exception, or None or
\* empty content) is in OutlineFailed and has reported it; the result it built
\* has no article, no image and no resources; and generate_outline is the only
\* call it made: write_article, the image search, the image generator and
\* suggest_resources are not invoked.
C1_OutlineFailureAborts ==
    OutlineCallFailed =>
        /\ pc = "OutlineFailed"
        /\ Reported("error", "Failed to generate outline. Please try again.")
        /\ ~Present(generated_content, "article")
        /\ ~Present(generated_content, "image_url")
        /\ ~Present(generated_content, "image_source")
        /\ ~Present(generated_content, "resources")
        /\ calls = <<"generate_outline">>

\* The run called write_article and got nothing usable back.
ArticleCallFailed == Invoked("write_article") /\ ~Truthy(locals.article)

\* C2: a run whose outline call succeeded and whose article call fails is in
\* ArticleFailed and has reported it; the result it built holds the outline
\* that was returned and no article, no image field and no resources; and the
\* run invoked generate_outline and write_article only, neither image tier and
\* not suggest_resources.
C2_ArticleFailureAborts ==
    ArticleCallFailed =>
        /\ pc = "ArticleFailed"
        /\ Reported("error", "Failed to generate article. Please try again.")
        /\ Truthy(locals.outline)
        /\ Present(generated_content, "outline")
        /\ generated_content["outline"] = locals.outline
        /\ ~Present(generated_content, "article")
        /\ ~Present(generated_content, "image_url")
        /\ ~Present(generated_content, "image_source")
        /\ ~Present(generated_content, "resources")
        /\ calls = <<"generate_outline", "write_article">>

\* C3: whenever a run has ended in ConfigError, OutlineFailed or ArticleFailed,
\* the retained result is exactly what it was when that run started: nothing
\* the run built is retained.
C3_FatalRunKeepsRetainedResult ==
    pc \in FatalStates => session = session_before

\* A run that failed at the article, having built a partial result that differs
\* from the result retained from an earlier run.
C3_Witness ==
    /\ pc = "ArticleFailed"
    /\ session # <<>>
    /\ Present(generated_content, "outline")
    /\ session[1]["outline"] # generated_content["outline"]

\* C4: once get_freepik_image has returned a url in a run, generate_dalle_image
\* is not invoked in that run and the image stored for the run is that url with
\* the source "Freepik".
C4_SearchHitShortCircuits ==
    Truthy(locals.freepik_image) =>
        /\ ~Invoked("generate_dalle_image")
        /\ generate_header_image(locals.freepik_image, locals.dalle_image)
               = <<locals.freepik_image, "Freepik">>
        /\ Present(generated_content, "image_url")
        /\ generated_content["image_url"] = locals.freepik_image
        /\ Present(generated_content, "image_source")
        /\ generated_content["image_source"] = "Freepik"

\* A completed run whose image came from the search.
C4_Witness ==
    /\ pc = "Complete"
    /\ locals.freepik_image \in FreepikUrls
    /\ Invoked("requests.get")
    /\ session[1]["image_source"] = "Freepik"

\* C5: when get_freepik_image returned nothing and generate_dalle_image then
\* returned a url, the image stored for the run is the generated url with the
\* source "DALL-E", and so is the published one.
C5_FallbackImageIsGenerated ==
    (Invoked("generate_dalle_image") /\ ~Truthy(locals.freepik_image)
        /\ Truthy(locals.dalle_image)) =>
        /\ Get(generated_content, "image_url", None) = locals.dalle_image
        /\ Get(generated_content, "image_source", None) = "DALL-E"
        /\ pc = "Complete" =>
              /\ session[1]["image_url"] = locals.dalle_image
              /\ session[1]["image_source"] = "DALL-E"

\* A completed run with the search credential unset whose image was generated.
C5_Witness ==
    /\ pc = "Complete"
    /\ env.FREEPIK_API_KEY = None
    /\ ~Invoked("requests.get")
    /\ locals.dalle_image \in DalleUrls
    /\ session[1]["image_source"] = "DALL-E"

\* The same with the credential set and a search that raised.
C5_WitnessSearchRaised ==
    /\ pc = "Complete"
    /\ Reported("warning", "Freepik API error")
    /\ locals.dalle_image \in DalleUrls
    /\ session[1]["image_source"] = "DALL-E"

\* Both image tiers were tried by the run and neither returned a url.
BothTiersAbsent ==
    /\ Invoked("generate_dalle_image")
    /\ ~Truthy(locals.freepik_image)
    /\ ~Truthy(locals.dalle_image)

\* C6: once both image tiers have returned nothing in a run (whose outline and
\* article succeeded), the run is at the resources step or complete, never in a
\* failure state; its result has neither image url nor image source; when
\* complete, that result is the one published and suggest_resources was
\* invoked; and the run does reach Complete.
C6_NoImageStillCompletes ==
    /\ [](BothTiersAbsent =>
            /\ Truthy(locals.outline) /\ Truthy(locals.article)
            /\ pc \in {"ResourcesPending", "Complete"}
            /\ ~Present(generated_content, "image_url")
            /\ ~Present(generated_content, "image_source")
            /\ pc = "Complete" =>
                  /\ Invoked("suggest_resources")
                  /\ session = <<generated_content>>
                  /\ ~Present(session[1], "image_url")
                  /\ ~Present(session[1], "image_source"))
    /\ (BothTiersAbsent ~> (BothTiersAbsent /\ pc = "Complete"))

\* Two outcome records that differ only in whether the resources call
\* succeeded.
DifferOnlyInResources(o1, o2) ==
    /\ o1.outline = o2.outline
    /\ o1.article = o2.article
    /\ o1.freepik_image = o2.freepik_image
    /\ o1.dalle_image = o2.dalle_image
    /\ (o1.resources = None) # (o2.resources = None)

\* C7: a run that has made its resources call is complete whatever the call
\* returned; and of two completed runs (the one that produced the previously
\* retained result and the one that just completed) whose outline, article and
\* image calls returned the same and of which exactly one had a failing
\* resources call, the published outline, article, image url and image source
\* are equal, and the result of the run whose resources call failed has no
\* resources field.
C7_ResourcesFailureTouchesNothingElse ==
    /\ Invoked("suggest_resources") => pc = "Complete"
    /\ (pc = "Complete" /\ outcomes_before # <<>>
          /\ DifferOnlyInResources(outcomes_before[1], Outcomes(locals))) =>
        /\ session_before # <<>>
        /\ \A k \in {"outline", "article", "image_url", "image_source"} :
              /\ k \in DOMAIN session[1]
              /\ k \in DOMAIN session_before[1]
              /\ session[1][k] = session_before[1][k]
        /\ outcomes_before[1].resources = None => "resources" \notin DOMAIN session_before[1]
        /\ Outcomes(locals).resources = None => "resources" \notin DOMAIN session[1]

\* Generation was triggered by the last rerun with an input or the generation
\* credential missing.
TriggeredUnconfigured ==
    /\ pc \notin {"Idle", "StartupError"}
    /\ \/ title = ""
       \/ word_range = ""
       \/ env.OPENAI_API_KEY = None

\* C8: a run triggered with an empty title, an empty word range or no OpenAI
\* key is in ConfigError, has shown exactly one error, has invoked no client,
\* and has built nothing.
C8_ConfigErrorCallsNothing ==
    TriggeredUnconfigured =>
        /\ pc = "ConfigError"
        /\ calls = <<>>
        /\ Len(messages) = 1
        /\ messages[1].level = "error"
        /\ generated_content = EmptyDict

\* C9: every exported document is the template filled with the title of the
\* run that produced the retained result and with that result's outline,
\* article and resources, whatever the inputs hold when the export is made; so
\* any two exports of one retained result are the same document.
C9_ExportIsFunctionOfResult ==
    download # <<>> =>
        download[1].data = markdown_content(result_title, session[1])

\* Invariant of a result: an article only with an outline, an image url exactly
\* with an image source.
ResultInvariant(d) ==
    /\ Present(d, "article") => Present(d, "outline")
    /\ Present(d, "image_url") <=> Present(d, "image_source")

\* C10: in every reachable state the result being built and the retained
\* result (when there is one) satisfy the result invariant.
C10_ResultInvariant ==
    /\ ResultInvariant(generated_content)
    /\ session # <<>> => ResultInvariant(session[1])

\* A run that has stored an image and is about to ask for resources, in a
\* session that retains a result without an image.
C10_Witness ==
    /\ pc = "ResourcesPending"
    /\ Present(generated_content, "article")
    /\ Present(generated_content, "image_url")
    /\ session # <<>>
    /\ ~Present(session[1], "image_url")

\* A first result published by a run whose script was then stopped at line
\* 226: it is retained and nothing of it has been drawn.
C10_WitnessUndisplayed ==
    /\ pc = "Complete"
    /\ stop_requested
    /\ ~screen.export
    /\ Present(session[1], "resources")
    /\ Present(session[1], "image_url")

\* C11: when a run has completed, the retained result is the dict that run
\* built and nothing else: its outline and article are the ones the run's calls
\* returned, its image fields are the pair the run's image tiers produced (None
\* when they produced none), and it has a resources field only if the run's
\* resources call returned one, whatever the result retained before held.
C11_CompleteRunReplacesResult ==
    pc = "Complete" =>
        LET image == generate_header_image(locals.freepik_image, locals.dalle_image) IN
        /\ session = <<generated_content>>
        /\ DOMAIN session[1] \subseteq
              {"outline", "article", "image_url", "image_source", "resources"}
        /\ session[1]["outline"] = locals.outline
        /\ session[1]["article"] = locals.article
        /\ session[1]["image_url"] = image[1]
        /\ session[1]["image_source"] = image[2]
        /\ IF Truthy(locals.resources)
           THEN session[1]["resources"] = locals.resources
           ELSE "resources" \notin DOMAIN session[1]

\* A completed run without image and without resources, after a run whose
\* result had both.
C11_Witness ==
    /\ pc = "Complete"
    /\ session_before # <<>>
    /\ Present(session_before[1], "resources")
    /\ Present(session_before[1], "image_url")
    /\ ~Present(session[1], "resources")
    /\ ~Present(session[1], "image_url")

\* The number of entries of the run's call log that are in the set fs.
CountCalls(fs) == Cardinality({i \in 1..Len(calls) : calls[i] \in fs})

TextCalls == {"generate_outline", "write_article", "suggest_resources"}

\* The script of the run is over: it got to the end of the pipeline or the
\* runtime stopped it.
RunOver == pc \in {"Complete", "Stopped"}

\* C12: with the search credential unset, a run never sends the search request;
\* and a validated run whose outline and article calls succeeded has, when it
\* is over, made exactly three text generation calls (outline, article,
\* resources) and exactly one image generation call, and has published an
\* image source that is "DALL-E" if that call returned a url and None
\* otherwise.
C12_NoSearchKeyScenario ==
    env.FREEPIK_API_KEY = None =>
        /\ ~Invoked("requests.get")
        /\ (RunOver /\ Truthy(locals.outline) /\ Truthy(locals.article)) =>
              /\ calls = <<"generate_outline", "write_article", "get_freepik_image",
                           "generate_dalle_image", "suggest_resources">>
              /\ CountCalls(TextCalls) = 3
              /\ CountCalls({"generate_dalle_image"}) = 1
              /\ session = <<generated_content>>
              /\ Get(session[1], "image_source", None) =
                    IF Truthy(locals.dalle_image) THEN "DALL-E" ELSE None
              /\ Get(session[1], "image_url", None) = Norm(locals.dalle_image)

HasError == \E i \in 1..Len(messages) : messages[i].level = "error"

ImageMessageTexts ==
    {"Freepik API error", "DALL-E generation error", "Could not generate header image."}

\* C13: a completed run shows no error message; if both image tiers returned
\* nothing it shows the image warning; if its resources call failed it shows a
\* warning for that; and error messages are shown only by runs in a fatal
\* state (or by runs that the user stopped on their way to one).
C13_NonFatalFailuresAreWarnings ==
    /\ (HasError /\ ~RunStopped) => pc \in FatalStates
    /\ pc = "Complete" =>
          /\ BothTiersAbsent => Reported("warning", "Could not generate header image.")
          /\ ~Truthy(locals.resources) =>
                \E i \in 1..Len(messages) :
                    /\ messages[i].level = "warning"
                    /\ messages[i].text \notin ImageMessageTexts

\* A call of the run raised and its wrapper reported it.
OutlineRaised == Reported("error", "Outline generation error")
ArticleRaised == Reported("error", "Article writing error")
SearchRaised == Reported("warning", "Freepik API error")
GeneratorRaised == Reported("error", "DALL-E generation error")
ResourcesRaised == Reported("error", "Resource suggestion error")

\* C14: an exception of any of the five external calls reaches the pipeline as
\* the value None; after a raising search the generator is the next call or
\* has been made; after a raising generator the run is at the resources step
\* or complete; and after a raising resources call the run is complete.
C14_ExceptionsBecomeAbsent ==
    /\ OutlineRaised => locals.outline = None
    /\ ArticleRaised => locals.article = None
    /\ SearchRaised =>
          /\ locals.freepik_image = None
          /\ pc = "ImageFallback" \/ Invoked("generate_dalle_image")
    /\ GeneratorRaised =>
          /\ locals.dalle_image = None
          /\ pc \in {"ResourcesPending", "Complete"}
    /\ ResourcesRaised => (locals.resources = None /\ pc = "Complete")

PendingStates ==
    {"OutlinePending", "ArticlePending", "ImagePending", "ImageFallback",
     "ResourcesPending"}

TerminalStates == {"ConfigError", "OutlineFailed", "ArticleFailed", "Complete"}

\* C15: a script that got past lines 22-24 is idle, at a pipeline step or in one
\* of the four terminal states; a run at a pipeline step moves only to a pipeline step or a terminal
\* state and, every call returning, reaches a terminal state; and the only step
\* out of a terminal state is the start of another script run, which has
\* invoked nothing.
C15_RunsReachOneTerminalState ==
    /\ [](pc \in PendingStates \cup TerminalStates \cup {"Idle", "StartupError"})
    /\ [][(pc \in PendingStates) => pc' \in (PendingStates \cup TerminalStates)]_vars
    /\ [][(pc \in TerminalStates) =>
            /\ calls' = <<>>
            /\ pc' \in {"Idle", "ConfigError", "OutlinePending"}]_vars
    /\ (pc \in PendingStates ~> pc \in TerminalStates)

\* Position of each entry of the call log in the pipeline's order; the search
\* request is part of the image search.
Rank(f) ==
    CASE f = "generate_outline" -> 1
      [] f = "write_article" -> 2
      [] f = "get_freepik_image" -> 3
      [] f = "requests.get" -> 4
      [] f = "generate_dalle_image" -> 5
      [] f = "suggest_resources" -> 6

\* C16: the calls of a run are made in the order outline, article, image
\* search, image generation, resources, none of them twice; every call made
\* has returned before the next is made (one request per call); and
\* write_article is invoked only after generate_outline returned a non-empty
\* outline, with exactly that outline in its prompt.
C16_CallsInOrderOnce ==
    /\ \A i, j \in 1..Len(calls) : i < j => Rank(calls[i]) < Rank(calls[j])
    /\ Len(prompts) = CountCalls(TextCalls \cup {"requests.get", "generate_dalle_image"})
    /\ \A i \in 1..Len(prompts) :
          prompts[i].call = "write_article" =>
              /\ i > 1
              /\ prompts[i - 1].call = "generate_outline"
              /\ Truthy(locals.outline)
              /\ prompts[i].outline = locals.outline
              /\ prompts[i].outline = generated_content["outline"]

\* A run that has called outline, article, search and generator, the article
\* prompt carrying the second outline text.
C16_Witness ==
    /\ pc = "ResourcesPending"
    /\ calls = <<"generate_outline", "write_article", "get_freepik_image",
                 "requests.get", "generate_dalle_image">>
    /\ prompts[2] = article_prompt(title, "outline-2", word_range)

\* The last thing the run did was the search request.
SearchResponseReceived == calls # <<>> /\ calls[Len(calls)] = "requests.get"

\* C17: when the search request was sent, get_freepik_image returned a preview
\* url that the first data element of a 200 response carries under
\* attributes.preview.url or images.preview.url whenever it carries one (also
\* when the other shape's container is there without a url), and nothing when
\* it carries none, the data array is empty or missing, or the status is not
\* 200.
C17_PreviewUrlUnderEitherShape ==
    SearchResponseReceived =>
        IF response_previews = {}
        THEN ~Truthy(locals.freepik_image)
        ELSE locals.freepik_image \in response_previews

\* C18: the retained result, when there is one, holds a non-empty outline and a
\* non-empty article, and it is assigned only by the step with which a run
\* reaches Complete.
C18_RetainedResultIsComplete ==
    /\ [](session # <<>> =>
            /\ Truthy(Get(session[1], "outline", None))
            /\ Truthy(Get(session[1], "article", None)))
    /\ [][session' # session => (pc = "ResourcesPending" /\ pc' = "Complete")]_vars

\* A retained result that holds nothing but outline and article, displayed
\* after the run that produced it.
C18_Witness ==
    /\ pc = "Idle"
    /\ session = <<[outline |-> "outline-1", article |-> "article-2",
                    image_url |-> None, image_source |-> None]>>

\* The file button of an earlier execution, on screen while a run is at its
\* resources step.
C19_WitnessDuringRun ==
    /\ pc = "ResourcesPending"
    /\ screen.file
    /\ session # <<>>

\* C19: a rerun that does not generate (an edit of the title or the word range,
\* a click on one of the download buttons, a plain rerun) leaves the retained result as it was and
\* has invoked no client.
C19_OtherRerunsCallNothing ==
    [][(pc' = "Idle") =>
        /\ session' = session
        /\ calls' = <<>>
        /\ prompts' = <<>>]_vars

\* The download button clicked after the title was edited, with a result
\* retained.
C19_Witness ==
    /\ pc = "Idle"
    /\ download # <<>>
    /\ session # <<>>
    /\ title # result_title

====
